---------------------------- MODULE Spec2Model ----------------------------
(***************************************************************************)
(* A model of src/obfuscate.py: the C source obfuscator's tokenizer and    *)
(* its ordered pipeline of transforms (obfuscate, lines 208-229).          *)
(*                                                                         *)
(* Text is a sequence of one-character strings; a token is a record        *)
(* [kind, value] standing for the Python pair (m.lastgroup, m.group()).    *)
(* Positions are 1-based; a matcher returns the position just after its    *)
(* match, or 0 when the alternative does not match.                        *)
(***************************************************************************)
EXTENDS Integers, Sequences, FiniteSets, TLC

-----------------------------------------------------------------------------
(* CONFIGURATION (lines 9-33) *)

LEVELS == <<"mild", "moderate", "extreme">>

\* The rotations enumerated for random.shuffle
MaxShift == 1

\* The number of fragments a source text is made of
MaxFrags == 3

\* The number of fragments of a source of directive lines
MaxDirFrags == 3

\* The number of distinct identifiers given to tiers 1 and 2
MaxIdents == 78

\* The number of identifiers given to tier 3 beyond len(CONFUSING)
MaxExtra == 1

\* The number of digits of a numeric literal
MaxDigits == 3

RESERVED ==
  {
    <<"a","u","t","o">>, <<"b","r","e","a","k">>, <<"c","a","s","e">>, <<"c","h","a","r">>,
    <<"c","o","n","s","t">>, <<"c","o","n","t","i","n","u","e">>,
    <<"d","e","f","a","u","l","t">>, <<"d","o">>, <<"d","o","u","b","l","e">>,
    <<"e","l","s","e">>, <<"e","n","u","m">>, <<"e","x","t","e","r","n">>,
    <<"f","l","o","a","t">>, <<"f","o","r">>, <<"g","o","t","o">>, <<"i","f">>, <<"i","n","t">>,
    <<"l","o","n","g">>, <<"r","e","g","i","s","t","e","r">>, <<"r","e","t","u","r","n">>,
    <<"s","h","o","r","t">>, <<"s","i","g","n","e","d">>, <<"s","i","z","e","o","f">>,
    <<"s","t","a","t","i","c">>, <<"s","t","r","u","c","t">>, <<"s","w","i","t","c","h">>,
    <<"t","y","p","e","d","e","f">>, <<"u","n","i","o","n">>,
    <<"u","n","s","i","g","n","e","d">>, <<"v","o","i","d">>,
    <<"v","o","l","a","t","i","l","e">>, <<"w","h","i","l","e">>, <<"p","r","i","n","t","f">>,
    <<"s","c","a","n","f">>, <<"m","a","l","l","o","c">>, <<"f","r","e","e">>,
    <<"s","t","r","l","e","n">>, <<"s","t","r","c","p","y">>, <<"s","t","r","c","m","p">>,
    <<"m","e","m","c","p","y">>, <<"f","o","p","e","n">>, <<"f","c","l","o","s","e">>,
    <<"f","r","e","a","d">>, <<"f","w","r","i","t","e">>, <<"e","x","i","t">>,
    <<"N","U","L","L">>, <<"s","t","d","i","n">>, <<"s","t","d","o","u","t">>,
    <<"s","t","d","e","r","r">>, <<"m","a","i","n">>
  }

CONFUSING ==
  <<
    <<"O","0">>, <<"l","1">>, <<"I","l">>, <<"l","I">>, <<"O","0","l">>, <<"l","1","I">>,
    <<"I","1","l">>, <<"O","O","0">>, <<"l","l","1">>, <<"I","l","l">>, <<"l","l","l">>,
    <<"I","I","I">>, <<"o","O","0">>, <<"O","0","o">>, <<"_","O">>, <<"_","0">>, <<"_","l">>,
    <<"_","I">>, <<"_","_","O">>, <<"_","_","0">>, <<"_","_","l">>, <<"_","_","I">>,
    <<"O","_","0">>, <<"l","_","1">>, <<"I","_","l">>, <<"_","O","0">>, <<"_","l","1">>,
    <<"_","I","l">>, <<"O","O","O">>, <<"l","l","l","1">>, <<"I","l","I">>, <<"l","I","l">>,
    <<"I","I","l">>, <<"O","0","O","0">>, <<"l","1","l","1">>, <<"I","l","I","l">>,
    <<"O","0","0","O">>, <<"l","1","1","l">>, <<"o","O","o","O">>, <<"O","o","0","O">>,
    <<"o","O","0","o">>, <<"l","O","0","l">>, <<"I","l","O","0">>, <<"O","l","I","l">>,
    <<"l","I","O","0">>, <<"O","0","I","l">>, <<"I","l","0","O">>, <<"l","O","0","I">>
  >>

macros ==
  <<
    <<"#","d","e","f","i","n","e"," ","_","O","B","_","A","(","a",",","b",")"," ","(","(","a",")","+","(","b",")",")">>,
    <<"#","d","e","f","i","n","e"," ","_","O","B","_","S","(","a",",","b",")"," ","(","(","a",")","-","(","b",")",")">>,
    <<"#","d","e","f","i","n","e"," ","_","O","B","_","M","(","a",",","b",")"," ","(","(","a",")","*","(","b",")",")">>,
    <<"#","d","e","f","i","n","e"," ","_","O","B","_","L","T","(","a",",","b",")"," ","(","(","a",")","<","(","b",")",")">>,
    <<"#","d","e","f","i","n","e"," ","_","O","B","_","G","T","(","a",",","b",")"," ","(","(","a",")",">","(","b",")",")">>,
    <<"#","d","e","f","i","n","e"," ","_","O","B","_","E","Q","(","a",",","b",")"," ","(","(","a",")","=","=","(","b",")",")">>,
    <<"#","d","e","f","i","n","e"," ","_","O","B","_","N","(","a",")"," ","(","!","(","a",")",")">>
  >>


-----------------------------------------------------------------------------
(* Character classes of the regular expressions *)

Digit == {"0", "1", "2", "3", "4", "5", "6", "7", "8", "9"}

OctDigit == {"0", "1", "2", "3", "4", "5", "6", "7"}

HexDigit ==
  Digit \cup {"a", "b", "c", "d", "e", "f", "A", "B", "C", "D", "E", "F"}

Letter ==
  {"a", "b", "c", "d", "e", "f", "g", "h", "i", "j", "k", "l", "m",
   "n", "o", "p", "q", "r", "s", "t", "u", "v", "w", "x", "y", "z",
   "A", "B", "C", "D", "E", "F", "G", "H", "I", "J", "K", "L", "M",
   "N", "O", "P", "Q", "R", "S", "T", "U", "V", "W", "X", "Y", "Z"}

\* \w
WordChar == Letter \cup Digit \cup {"_"}

\* \s
Space == {" ", "\t", "\n", "\r", "\f"}

\* [+\-*/%&|^~!<>=?:]
OpChar ==
  {"+", "-", "*", "/", "%", "&", "|", "^", "~", "!", "<", ">", "=", "?", ":"}

\* [{}()\[\];,.]
PunctChar == {"{", "}", "(", ")", "[", "]", ";", ",", "."}

-----------------------------------------------------------------------------
(* String helpers *)

\* The character at position p, or "" past the end of the text.
At(s, p) == IF p >= 1 /\ p <= Len(s) THEN s[p] ELSE ""

\* s[p:q] in 1-based, end-exclusive positions.
Slice(s, p, q) == SubSeq(s, p, q - 1)

\* The least element of a non-empty set of positions.
Min(S) == CHOOSE x \in S : \A y \in S : x <= y

\* The position after the longest run of characters of class C from p on.
ScanWhile(s, p, C) ==
  LET stop == {q \in p..Len(s) : s[q] \notin C}
  IN  IF p > Len(s) THEN p ELSE IF stop = {} THEN Len(s) + 1 ELSE Min(stop)

\* The position of the first character of class C from p on (or Len(s)+1).
ScanUntil(s, p, C) ==
  LET stop == {q \in p..Len(s) : s[q] \in C}
  IN  IF p > Len(s) THEN p ELSE IF stop = {} THEN Len(s) + 1 ELSE Min(stop)

\* "".join(parts)
RECURSIVE Join(_)
Join(parts) ==
  IF parts = <<>> THEN <<>>
  ELSE IF Len(parts) = 1 THEN parts[1]
  ELSE LET h == Len(parts) \div 2
       IN  Join(SubSeq(parts, 1, h)) \o Join(SubSeq(parts, h + 1, Len(parts)))

\* sep.join(parts)
JoinWith(parts, sep) ==
  Join([i \in 1..(2 * Len(parts) - 1) |-> IF i % 2 = 1 THEN parts[(i + 1) \div 2] ELSE sep])

\* s.split(c) for a one-character separator c: never an empty list.
RECURSIVE SplitFrom(_, _, _)
SplitFrom(s, p, c) ==
  LET q == ScanUntil(s, p, {c})
  IN  IF q > Len(s) THEN <<Slice(s, p, q)>>
      ELSE <<Slice(s, p, q)>> \o SplitFrom(s, q + 1, c)

Split(s, c) == SplitFrom(s, 1, c)

\* s.strip()
RECURSIVE RStripEnd(_, _)
RStripEnd(s, q) ==
  IF q >= 1 /\ s[q] \in Space THEN RStripEnd(s, q - 1) ELSE q

Strip(s) ==
  LET p == ScanWhile(s, 1, Space)
  IN  IF p > Len(s) THEN <<>> ELSE SubSeq(s, p, RStripEnd(s, Len(s)))

\* s.startswith(prefix)
StartsWith(s, prefix) ==
  Len(s) >= Len(prefix) /\ SubSeq(s, 1, Len(prefix)) = prefix

\* sub in s
Contains(s, sub) ==
  \E p \in 1..(Len(s) - Len(sub) + 1) : SubSeq(s, p, p + Len(sub) - 1) = sub

-----------------------------------------------------------------------------
(* TOKENIZATION (lines 35-54) *)

\* (?P<comment>/\*.*?\*/|//[^\n]*)
\* .*? is lazy: the comment ends at the first */ from q on.
FindCommentEnd(s, q) ==
  LET ends == {r \in q..(Len(s) - 1) : s[r] = "*" /\ s[r + 1] = "/"}
  IN  IF ends = {} THEN 0 ELSE Min(ends) + 2

MatchComment(s, p) ==
  IF At(s, p) = "/" /\ At(s, p + 1) = "*" /\ FindCommentEnd(s, p + 2) # 0
    THEN FindCommentEnd(s, p + 2)
  ELSE IF At(s, p) = "/" /\ At(s, p + 1) = "/"
    THEN ScanUntil(s, p + 2, {"\n"})
  ELSE 0

\* The body (?:[^q\\]|\\.)*q of a quoted literal, from position i0 on.  The
\* loop takes a backslash together with the character after it, so the
\* character at i is taken by an escape exactly when the run of backslashes
\* that ends just before i (and starts at i0 or later) has odd length; the
\* literal ends at the first q that no escape takes.
Escaped(s, i0, i) ==
  LET others == {j \in i0..(i - 1) : s[j] # "\\"}
      last   == IF others = {} THEN i0 - 1
                ELSE CHOOSE j \in others : \A k \in others : k <= j
  IN  (i - 1 - last) % 2 = 1

ScanQuoted(s, i0, q) ==
  LET ends == {i \in i0..Len(s) : s[i] = q /\ ~Escaped(s, i0, i)}
  IN  IF ends = {} THEN 0 ELSE Min(ends) + 1

\* (?P<string>"(?:[^"\\]|\\.)*")
MatchString(s, p) == IF At(s, p) = "\"" THEN ScanQuoted(s, p + 1, "\"") ELSE 0

\* (?P<charlit>'(?:[^'\\]|\\.)*')
MatchCharlit(s, p) == IF At(s, p) = "'" THEN ScanQuoted(s, p + 1, "'") ELSE 0

\* The preprocessor alternative without its ^ anchor.
MatchPreproc_Unanchored(s, p) ==
  IF At(s, p) = "#" THEN ScanUntil(s, p + 1, {"\n"}) ELSE 0

\* (?P<preproc>^\#[^\n]*) under re.MULTILINE
MatchPreproc(s, p) ==
  IF At(s, p) = "#" /\ (p = 1 \/ At(s, p - 1) = "\n")
    THEN ScanUntil(s, p + 1, {"\n"})
  ELSE 0

\* (?P<number>0[xX][0-9a-fA-F]+|0[0-7]+|\d+(?:\.\d*)?(?:[eE][+-]?\d+)?)
MatchNumber(s, p) ==
  IF At(s, p) = "0" /\ At(s, p + 1) \in {"x", "X"} /\ At(s, p + 2) \in HexDigit
    THEN ScanWhile(s, p + 2, HexDigit)
  ELSE IF At(s, p) = "0" /\ At(s, p + 1) \in OctDigit
    THEN ScanWhile(s, p + 1, OctDigit)
  ELSE IF At(s, p) \in Digit
    THEN LET e1 == ScanWhile(s, p, Digit)
             e2 == IF At(s, e1) = "." THEN ScanWhile(s, e1 + 1, Digit) ELSE e1
             j  == IF At(s, e2 + 1) \in {"+", "-"} THEN e2 + 2 ELSE e2 + 1
         IN  IF At(s, e2) \in {"e", "E"} /\ At(s, j) \in Digit
               THEN ScanWhile(s, j, Digit)
             ELSE e2
  ELSE 0

\* (?P<ident>[A-Za-z_]\w*)
MatchIdent(s, p) ==
  IF At(s, p) \in Letter \cup {"_"} THEN ScanWhile(s, p + 1, WordChar) ELSE 0

\* (?P<op><<=|>>=|<<|>>|->|&&|\|\||[+\-*/%&|^~!<>=?:]=?|==|!=|<=|>=|\+\+|--)
\* Alternatives are tried in order, so the ones after the character class
\* (==, !=, <=, >=, ++, --) are never the ones that match.
MatchOp(s, p) ==
  LET c1 == At(s, p)
      c2 == At(s, p + 1)
      c3 == At(s, p + 2)
  IN  IF (c1 = "<" /\ c2 = "<" /\ c3 = "=") \/ (c1 = ">" /\ c2 = ">" /\ c3 = "=")
        THEN p + 3
      ELSE IF \/ (c1 = "<" /\ c2 = "<") \/ (c1 = ">" /\ c2 = ">")
              \/ (c1 = "-" /\ c2 = ">") \/ (c1 = "&" /\ c2 = "&")
              \/ (c1 = "|" /\ c2 = "|")
        THEN p + 2
      ELSE IF c1 \in OpChar THEN (IF c2 = "=" THEN p + 2 ELSE p + 1)
      ELSE 0

\* (?P<punct>[{}()\[\];,.])
MatchPunct(s, p) == IF At(s, p) \in PunctChar THEN p + 1 ELSE 0

\* (?P<ws>\s+)
MatchWs(s, p) == IF At(s, p) \in Space THEN ScanWhile(s, p, Space) ELSE 0

\* One attempt of TOKEN_REGEX at position p: the first alternative that
\* matches, as [kind, end]; end = 0 when no alternative matches there.
MatchAt(s, p) ==
  IF MatchComment(s, p) # 0 THEN [kind |-> "comment", end |-> MatchComment(s, p)]
  ELSE IF MatchString(s, p) # 0 THEN [kind |-> "string", end |-> MatchString(s, p)]
  ELSE IF MatchCharlit(s, p) # 0 THEN [kind |-> "charlit", end |-> MatchCharlit(s, p)]
  ELSE IF MatchPreproc(s, p) # 0 THEN [kind |-> "preproc", end |-> MatchPreproc(s, p)]
  ELSE IF MatchNumber(s, p) # 0 THEN [kind |-> "number", end |-> MatchNumber(s, p)]
  ELSE IF MatchIdent(s, p) # 0 THEN [kind |-> "ident", end |-> MatchIdent(s, p)]
  ELSE IF MatchOp(s, p) # 0 THEN [kind |-> "op", end |-> MatchOp(s, p)]
  ELSE IF MatchPunct(s, p) # 0 THEN [kind |-> "punct", end |-> MatchPunct(s, p)]
  ELSE IF MatchWs(s, p) # 0 THEN [kind |-> "ws", end |-> MatchWs(s, p)]
  ELSE [kind |-> "", end |-> 0]

\* TOKEN_REGEX.finditer(code): where nothing matches, the scan moves on by
\* one character and that character is in no token.
RECURSIVE FindIter(_, _)
FindIter(s, p) ==
  IF p > Len(s) THEN <<>>
  ELSE LET m == MatchAt(s, p)
       IN  IF m.end = 0 THEN FindIter(s, p + 1)
           ELSE <<[kind |-> m.kind, value |-> Slice(s, p, m.end)]>>
                \o FindIter(s, m.end)

tokenize(code) == FindIter(code, 1)

detokenize(tokens) == Join([i \in 1..Len(tokens) |-> tokens[i].value])

-----------------------------------------------------------------------------
(* NAME GENERATION (lines 56-68) *)

\* [a + b for a in A for b in B], a and b texts
Product(A, B) ==
  [k \in 1..(Len(A) * Len(B)) |->
     A[((k - 1) \div Len(B)) + 1] \o B[((k - 1) % Len(B)) + 1]]

\* list("xyzqwkjvnmftbpdr")
MildLetters ==
  << <<"x">>, <<"y">>, <<"z">>, <<"q">>, <<"w">>, <<"k">>, <<"j">>, <<"v">>,
     <<"n">>, <<"m">>, <<"f">>, <<"t">>, <<"b">>, <<"p">>, <<"d">>, <<"r">> >>

\* "0123456789"
DigitChars ==
  << <<"0">>, <<"1">>, <<"2">>, <<"3">>, <<"4">>, <<"5">>, <<"6">>, <<"7">>,
     <<"8">>, <<"9">> >>

\* line 60
MildPool == MildLetters \o Product(SubSeq(MildLetters, 1, 5), DigitChars)

\* line 62
ModeratePool ==
  Product(<< <<"_">>, <<"_", "_">>, <<"_", "_", "_">> >>,
          MildLetters \o DigitChars)

\* random.choice(CONFUSING) + random.choice(["_", "0", "1"]), line 66
ExtensionNames ==
  {CONFUSING[i] \o <<c>> : i \in 1..Len(CONFUSING), c \in {"_", "0", "1"}}

\* The number of iterations of the loop of lines 65-66: it appends one name
\* per iteration while len(pool) < count.
ExtensionCount(count, style) ==
  IF style = "extreme" /\ count > Len(CONFUSING) THEN count - Len(CONFUSING) ELSE 0

\* What the random.choice calls of one run of that loop can return, as the
\* list of the names appended.
Extensions(count, style) == [1..ExtensionCount(count, style) -> ExtensionNames]

\* The pool of lines 59-66 before the shuffle, given the names appended.
Pool(style, ext) ==
  IF style = "mild" THEN MildPool
  ELSE IF style = "moderate" THEN ModeratePool
  ELSE CONFUSING \o ext

\* pool rotated left by r places: one of the permutations of pool.
Rotate(pool, r) ==
  [k \in 1..Len(pool) |-> pool[((k - 1 + r) % Len(pool)) + 1]]

\* random.shuffle(pool), line 67: any permutation may come out; the model
\* enumerates the rotations by 0..MaxShift places.
Shifts == 0..MaxShift

\* pool[:count], line 68
Prefix(pool, count) == SubSeq(pool, 1, IF count < Len(pool) THEN count ELSE Len(pool))

\* generate_names(count, style) when the loop appends ext and the shuffle
\* rotates by r.
generate_names(count, style, ext, r) == Prefix(Rotate(Pool(style, ext), r), count)

-----------------------------------------------------------------------------
(* TRANSFORMATION PASSES (lines 70-205) *)

\* lines 71-72
IsNotComment(t) == t.kind # "comment"

strip_comments(tokens) == SelectSeq(tokens, IsNotComment)

\* Line 78 without its test against RESERVED.
Renameable_AnyIdent(t) == t.kind = "ident"

\* line 78: the identifiers that are counted and renamed
Renameable(t) == t.kind = "ident" /\ t.value \notin RESERVED

\* The keys of freq in insertion (first-seen) order, lines 76-79.
FirstSeen(tokens) ==
  LET first == SelectSeq([i \in 1..Len(tokens) |-> i],
                         LAMBDA i : /\ Renameable(tokens[i])
                                    /\ \A j \in 1..(i - 1) : tokens[j] # tokens[i])
  IN  [k \in 1..Len(first) |-> tokens[first[k]].value]

\* freq[value]
Freq(tokens, value) ==
  Cardinality({i \in 1..Len(tokens) : Renameable(tokens[i]) /\ tokens[i].value = value})

\* sorted(freq.items(), key=lambda x: -x[1]), line 82: a stable sort, so
\* equal counts keep their first-seen order.
RECURSIVE SortedFrom(_, _, _)
SortedFrom(keys, counts, c) ==
  IF c = 0 THEN <<>>
  ELSE LET at == SelectSeq([k \in 1..Len(keys) |-> k], LAMBDA k : counts[k] = c)
       IN  [k \in 1..Len(at) |-> keys[at[k]]] \o SortedFrom(keys, counts, c - 1)

sorted_idents(tokens) ==
  LET keys   == FirstSeen(tokens)
      counts == [k \in 1..Len(keys) |-> Freq(tokens, keys[k])]
      most   == IF keys = <<>> THEN 0
                ELSE CHOOSE c \in {counts[k] : k \in 1..Len(keys)} :
                       \A k \in 1..Len(keys) : counts[k] <= c
  IN  SortedFrom(keys, counts, most)

\* line 84: the mapping as the ordered list of its (orig, name) items.
\* Reading names[i] past the end of names raises IndexError.
IndexError(idents, names) == Len(idents) > Len(names)

BuildMapping(idents, names) ==
  [i \in 1..Len(idents) |-> [orig |-> idents[i], name |-> names[i]]]

InMapping(mapping, value) == \E i \in 1..Len(mapping) : mapping[i].orig = value

Lookup(mapping, value) ==
  mapping[CHOOSE i \in 1..Len(mapping) : mapping[i].orig = value].name

\* lines 87-92
ApplyMapping(tokens, mapping) ==
  [i \in 1..Len(tokens) |->
     IF tokens[i].kind = "ident" /\ InMapping(mapping, tokens[i].value)
       THEN [kind |-> "ident", value |-> Lookup(mapping, tokens[i].value)]
     ELSE tokens[i]]

\* lines 96-118
RECURSIVE CompressFrom(_, _, _, _)
CompressFrom(tokens, i, result, level) ==
  IF i > Len(tokens) THEN result
  ELSE IF tokens[i].kind # "ws"
    THEN CompressFrom(tokens, i + 1, Append(result, tokens[i]), level)
  ELSE LET prev == IF result # <<>> THEN result[Len(result)].kind ELSE ""
           nxt  == IF i + 1 <= Len(tokens) THEN tokens[i + 1].kind ELSE ""
           nl   == \E k \in 1..Len(tokens[i].value) : tokens[i].value[k] = "\n"
           out  ==
             IF level \in {"mild", "moderate"}
               THEN Append(result, [kind |-> "ws",
                                    value |-> IF nl THEN <<"\n">> ELSE <<" ">>])
             ELSE IF nxt = "preproc" \/ prev = "preproc"
               THEN Append(result, [kind |-> "ws", value |-> <<"\n">>])
             ELSE IF prev \in {"ident", "number"} /\ nxt \in {"ident", "number"}
               THEN Append(result, [kind |-> "ws", value |-> <<" ">>])
             ELSE result
       IN  CompressFrom(tokens, i + 1, out, level)

compress_whitespace(tokens, level) == CompressFrom(tokens, 1, <<>>, level)

\* lines 125-144, the loop over lines with its result list and buffer
RECURSIVE FlattenFrom(_, _, _, _)
FlattenFrom(lines, i, result, buffer) ==
  IF i > Len(lines)
    THEN (IF buffer # <<>> THEN Append(result, Strip(buffer)) ELSE result)
  ELSE LET stripped == Strip(lines[i])
       IN  IF stripped = <<>> THEN FlattenFrom(lines, i + 1, result, buffer)
           ELSE IF stripped[1] = "#"
             THEN FlattenFrom(lines, i + 1,
                    Append(IF buffer # <<>> THEN Append(result, Strip(buffer))
                           ELSE result, stripped),
                    <<>>)
           ELSE FlattenFrom(lines, i + 1, result, buffer \o <<" ">> \o stripped)

flatten_code(code, level) ==
  IF level # "extreme" THEN code
  ELSE JoinWith(FlattenFrom(Split(code, "\n"), 1, <<>>, <<>>), <<"\n">>)

\* re.split(r'("(?:[^"\\]|\\.)*")', code): the text between matches at the
\* odd (1-based) places and the matches at the even ones.
FindString(s, p) ==
  LET starts == {q \in p..Len(s) : MatchString(s, q) # 0}
  IN  IF starts = {} THEN 0 ELSE Min(starts)

RECURSIVE SplitStringsFrom(_, _)
SplitStringsFrom(s, p) ==
  LET q == FindString(s, p)
  IN  IF q = 0 THEN <<Slice(s, p, Len(s) + 1)>>
      ELSE <<Slice(s, p, q), Slice(s, q, MatchString(s, q))>>
           \o SplitStringsFrom(s, MatchString(s, q))

SplitStrings(code) == SplitStringsFrom(code, 1)

\* \b at position p
WordStart(s, p) == At(s, p) \in WordChar /\ At(s, p - 1) \notin WordChar

\* One match of \b(\w+)\s*<op>\s*(\w+)\b at p, as the ends of its groups, or
\* end = 0. \w+ is greedy and a shorter first word is followed by a word
\* character, so each word is the whole word.
MatchBinary(s, p, op) ==
  LET e1 == ScanWhile(s, p, WordChar)
      o  == ScanWhile(s, e1, Space)
      b2 == ScanWhile(s, o + 1, Space)
      e2 == ScanWhile(s, b2, WordChar)
  IN  IF WordStart(s, p) /\ At(s, o) = op /\ At(s, b2) \in WordChar
        THEN [e1 |-> e1, b2 |-> b2, end |-> e2]
      ELSE [e1 |-> 0, b2 |-> 0, end |-> 0]

\* The first position from p on where the pattern matches, or 0.
FindBinary(s, p, op) ==
  LET starts == {q \in p..Len(s) : MatchBinary(s, q, op).end # 0}
  IN  IF starts = {} THEN 0 ELSE Min(starts)

\* re.sub(r'\b(\w+)\s*<op>\s*(\w+)\b', r'<name>(\1,\2)', s): the matches
\* are taken left to right, each search starting where the last match ended.
RECURSIVE SubBinaryFrom(_, _, _, _)
SubBinaryFrom(s, p, op, name) ==
  LET q == FindBinary(s, p, op)
      m == MatchBinary(s, q, op)
  IN  IF q = 0 THEN Slice(s, p, Len(s) + 1)
      ELSE Slice(s, p, q)
           \o name \o <<"(">> \o Slice(s, q, m.e1) \o <<",">>
           \o Slice(s, m.b2, m.end) \o <<")">>
           \o SubBinaryFrom(s, m.end, op, name)

SubBinary(s, op, name) == SubBinaryFrom(s, 1, op, name)

\* lines 164-166 on one non-string part
RewriteOperators(part) ==
  SubBinary(SubBinary(SubBinary(part, "+", <<"_", "O", "B", "_", "A">>),
                      "-", <<"_", "O", "B", "_", "S">>),
            "*", <<"_", "O", "B", "_", "M">>)

\* lines 162-167
RewriteOutsideStrings(code) ==
  LET parts == SplitStrings(code)
  IN  Join([i \in 1..Len(parts) |->
              IF i % 2 = 1 THEN RewriteOperators(parts[i]) ELSE parts[i]])

IsIncludeLine(l) == StartsWith(Strip(l), <<"#", "i", "n", "c", "l", "u", "d", "e">>)

\* line 171: next(...) takes the first line the generator yields
InsertPos(lines) ==
  IF \E i \in 1..Len(lines) : IsIncludeLine(lines[i])
    THEN CHOOSE i \in 1..Len(lines) :
           /\ IsIncludeLine(lines[i])
           /\ \A j \in 1..(i - 1) : ~IsIncludeLine(lines[j])
  ELSE 0

\* lines 170-175; InsertPos is the count of lines left before the block
InsertMacros(code) ==
  LET lines == Split(code, "\n")
      pos   == InsertPos(lines)
  IN  JoinWith(SubSeq(lines, 1, pos) \o macros \o SubSeq(lines, pos + 1, Len(lines)),
               <<"\n">>)

inject_macros(code, level) ==
  IF level = "mild" THEN code ELSE InsertMacros(RewriteOutsideStrings(code))

-----------------------------------------------------------------------------
(* Number formatting used by obfuscate_numbers.replace (lines 182-198) *)

DigitSeq ==
  <<"0", "1", "2", "3", "4", "5", "6", "7", "8", "9", "a", "b", "c", "d", "e", "f">>

DigitValue(c) == (CHOOSE k \in 1..16 : DigitSeq[k] = c) - 1

\* The digits of n in the given base, most significant first.
RECURSIVE ToBase(_, _)
ToBase(n, base) ==
  IF n < base THEN <<DigitSeq[n + 1]>>
  ELSE ToBase(n \div base, base) \o <<DigitSeq[(n % base) + 1]>>

\* The value of a run of digits read in the given base.
RECURSIVE FromBase(_, _)
FromBase(ds, base) ==
  IF ds = <<>> THEN 0
  ELSE FromBase(SubSeq(ds, 1, Len(ds) - 1), base) * base + DigitValue(ds[Len(ds)])

\* int(match.group(0)), line 183: a run of decimal digits read in base 10
ParseInt(ds) == FromBase(ds, 10)

\* str(n)
Str(n) == ToBase(n, 10)

\* hex(n)
Hex(n) == <<"0", "x">> \o ToBase(n, 16)

\* oct(n)[2:]
OctDigits(n) == ToBase(n, 8)

\* n.bit_length()
RECURSIVE BitLength(_)
BitLength(n) == IF n = 0 THEN 0 ELSE 1 + BitLength(n \div 2)

\* n & m
RECURSIVE BitAnd(_, _)
BitAnd(n, m) ==
  IF n = 0 \/ m = 0 THEN 0
  ELSE 2 * BitAnd(n \div 2, m \div 2) + (IF n % 2 = 1 /\ m % 2 = 1 THEN 1 ELSE 0)

\* The list choices of lines 184-196 for the matched text, as a set:
\* random.randint(1, n - 1) may return any a of 1..n-1.
Choices(matched) ==
  LET n == ParseInt(matched)
  IN  {Str(n)}
      \cup (IF n >= 0 THEN {Hex(n)} ELSE {})
      \cup (IF 0 < n /\ n < 256
              THEN {<<"0">> \o OctDigits(n),
                    <<"(", "0", "x", "F", "F", "&">> \o Hex(n) \o <<")">>}
            ELSE {})
      \cup (IF n > 1
              THEN {<<"(">> \o Str(a) \o <<"+">> \o Str(n - a) \o <<")">> : a \in 1..(n - 1)}
            ELSE {})
      \cup (IF n > 0 /\ BitAnd(n, n - 1) = 0
              THEN {<<"(", "1", "<", "<">> \o Str(BitLength(n) - 1) \o <<")">>}
            ELSE {})

\* One match of \b(\d+)\b at p: its end, or 0.
MatchDigits(s, p) ==
  LET e == ScanWhile(s, p, Digit)
  IN  IF WordStart(s, p) /\ e > p /\ At(s, e) \notin WordChar THEN e ELSE 0

\* The first position from p on where \b(\d+)\b matches, or 0.
FindDigits(s, p) ==
  LET starts == {q \in p..Len(s) : MatchDigits(s, q) # 0}
  IN  IF starts = {} THEN 0 ELSE Min(starts)

\* A non-string part cut at the matches of \b(\d+)\b: the matches are the
\* pieces re.sub hands to replace, in order.
RECURSIVE CutNumbers(_, _)
CutNumbers(s, p) ==
  LET q == FindDigits(s, p)
  IN  IF q = 0
        THEN (IF p > Len(s) THEN <<>>
              ELSE <<[text |-> Slice(s, p, Len(s) + 1), num |-> FALSE]>>)
      ELSE (IF p < q THEN <<[text |-> Slice(s, p, q), num |-> FALSE]>> ELSE <<>>)
           \o <<[text |-> Slice(s, q, MatchDigits(s, q)), num |-> TRUE]>>
           \o CutNumbers(s, MatchDigits(s, q))

\* lines 201-203: the string parts are kept whole, the others are cut.
RECURSIVE CutParts(_, _)
CutParts(parts, i) ==
  IF i > Len(parts) THEN <<>>
  ELSE (IF i % 2 = 1 THEN CutNumbers(parts[i], 1)
        ELSE <<[text |-> parts[i], num |-> FALSE]>>)
       \o CutParts(parts, i + 1)

NumberPieces(code) == CutParts(SplitStrings(code), 1)

\* The next piece replace is called on, or 0.
NextNumber(pieces) ==
  IF \E i \in 1..Len(pieces) : pieces[i].num
    THEN CHOOSE i \in 1..Len(pieces) :
           pieces[i].num /\ \A j \in 1..(i - 1) : ~pieces[j].num
  ELSE 0

-----------------------------------------------------------------------------
(* MAIN PIPELINE (lines 207-229) as a state machine: pc is the place in   *)
(* obfuscate, the other variables are its arguments and locals.            *)

VARIABLES
  pc,        \* the next step of obfuscate; "done" after line 229, "failed" after an exception
  level,     \* the level argument
  source,    \* the code argument as passed in
  tokens,    \* the local tokens
  mapping,   \* the local mapping, as the ordered list of its items
  code,      \* the local code from line 222 on
  pieces,    \* obfuscate_numbers: the text cut at the matches still to replace
  matched,   \* replace: match.group(0) of the latest call
  choice     \* replace: what the latest call returned

vars == <<pc, level, source, tokens, mapping, code, pieces, matched, choice>>

\* The source texts: up to MaxFrags of these pieces of C, in any order.
Fragments ==
  << <<"#", "i", "n", "c", "l", "u", "d", "e", "<", "a", ">">>,
     <<"\n">>,
     <<" ">>,
     <<"/", "*", "c", "*", "/">>,
     <<"'", "\"", "'">>,
     <<"\"", "1", "+", "2", "\"">>,
     <<"1">>,
     <<"n">>,
     <<"i", "n", "t">>,
     <<"+">>,
     <<"=">> >>

SourcesOf(n) ==
  {Join([i \in 1..n |-> Fragments[f[i]]]) : f \in [1..n -> 1..Len(Fragments)]}

Sources == UNION {SourcesOf(n) : n \in 0..MaxFrags}

Start(src, lvl) ==
  /\ pc = "tokenize"
  /\ level = lvl
  /\ source = src
  /\ tokens = <<>>
  /\ mapping = <<>>
  /\ code = <<>>
  /\ pieces = <<>>
  /\ matched = <<>>
  /\ choice = <<>>

Init == \E src \in Sources : \E k \in 1..Len(LEVELS) : Start(src, LEVELS[k])

\* line 210
Tokenize ==
  /\ pc = "tokenize"
  /\ tokens' = tokenize(source)
  /\ pc' = "strip"
  /\ UNCHANGED <<level, source, mapping, code, pieces, matched, choice>>

\* line 213
StripComments ==
  /\ pc = "strip"
  /\ tokens' = strip_comments(tokens)
  /\ pc' = "rename"
  /\ UNCHANGED <<level, source, mapping, code, pieces, matched, choice>>

\* line 216: rename_identifiers(tokens, level), lines 74-94
RenameIdentifiers ==
  /\ pc = "rename"
  /\ \E idents \in {sorted_idents(tokens)} :
       \E ext \in Extensions(Len(idents), level) : \E r \in Shifts :
         \E names \in {generate_names(Len(idents), level, ext, r)} :
           IF IndexError(idents, names)
             THEN /\ pc' = "failed"
                  /\ UNCHANGED <<tokens, mapping>>
           ELSE \E renamed \in {BuildMapping(idents, names)} :
                  /\ mapping' = renamed
                  /\ tokens' = ApplyMapping(tokens, renamed)
                  /\ pc' = "compress"
  /\ UNCHANGED <<level, source, code, pieces, matched, choice>>

\* line 219
CompressWhitespace ==
  /\ pc = "compress"
  /\ tokens' = compress_whitespace(tokens, level)
  /\ pc' = "detokenize"
  /\ UNCHANGED <<level, source, mapping, code, pieces, matched, choice>>

\* line 222
Detokenize ==
  /\ pc = "detokenize"
  /\ code' = detokenize(tokens)
  /\ pc' = "flatten"
  /\ UNCHANGED <<level, source, tokens, mapping, pieces, matched, choice>>

\* line 225
FlattenCode ==
  /\ pc = "flatten"
  /\ code' = flatten_code(code, level)
  /\ pc' = "inject"
  /\ UNCHANGED <<level, source, tokens, mapping, pieces, matched, choice>>

\* line 226
InjectMacros ==
  /\ pc = "inject"
  /\ code' = inject_macros(code, level)
  /\ pc' = "numbers"
  /\ UNCHANGED <<level, source, tokens, mapping, pieces, matched, choice>>

\* line 227, obfuscate_numbers up to the first call of replace (lines 179-203)
ObfuscateNumbers ==
  /\ pc = "numbers"
  /\ IF level # "extreme"
       THEN pc' = "done" /\ UNCHANGED pieces
     ELSE pc' = "replace" /\ pieces' = NumberPieces(code)
  /\ UNCHANGED <<level, source, tokens, mapping, code, matched, choice>>

\* One call of replace (lines 182-198) by re.sub, on the next match.
ReplaceNumber ==
  /\ pc = "replace"
  /\ NextNumber(pieces) # 0
  /\ LET i == NextNumber(pieces)
     IN  \E c \in Choices(pieces[i].text) :
           /\ matched' = pieces[i].text
           /\ choice' = c
           /\ pieces' = [pieces EXCEPT ![i] = [text |-> c, num |-> FALSE]]
  /\ UNCHANGED <<pc, level, source, tokens, mapping, code>>

\* line 205 and the return of line 229
ReturnCode ==
  /\ pc = "replace"
  /\ NextNumber(pieces) = 0
  /\ code' = Join([i \in 1..Len(pieces) |-> pieces[i].text])
  /\ pc' = "done"
  /\ UNCHANGED <<level, source, tokens, mapping, pieces, matched, choice>>

Next ==
  \/ Tokenize
  \/ StripComments
  \/ RenameIdentifiers
  \/ CompressWhitespace
  \/ Detokenize
  \/ FlattenCode
  \/ InjectMacros
  \/ ObfuscateNumbers
  \/ ReplaceNumber
  \/ ReturnCode

Spec == Init /\ [][Next]_vars

-----------------------------------------------------------------------------
(* rename_identifiers on the token streams of sources with many           *)
(* identifiers: "int v1 v2 ... vn main vn".  "int" and "main" are reserved *)
(* words, and the last identifier occurs twice, so it is the most frequent *)
(* one.  The stream is the one tokenize and strip_comments give for that   *)
(* text.                                                                    *)

IdentName(i) == <<"v">> \o Str(i)

IdentTokens(n) ==
  [k \in 1..(IF n > 0 THEN 2 * n + 5 ELSE 3) |->
     IF k % 2 = 0 THEN [kind |-> "ws", value |-> <<" ">>]
     ELSE IF k = 1 THEN [kind |-> "ident", value |-> <<"i", "n", "t">>]
     ELSE IF k = 2 * n + 3 THEN [kind |-> "ident", value |-> <<"m", "a", "i", "n">>]
     ELSE IF k = 2 * n + 5 THEN [kind |-> "ident", value |-> IdentName(n)]
     ELSE [kind |-> "ident", value |-> IdentName((k - 1) \div 2)]]

\* Tiers 1 and 2 get up to MaxIdents identifiers; tier 3 gets up to MaxExtra
\* more than CONFUSING holds, each of which costs one random extension.
IdentCounts(lvl) ==
  IF lvl = "extreme" THEN 0..(Len(CONFUSING) + MaxExtra) ELSE 0..MaxIdents

InitRename ==
  \E k \in 1..Len(LEVELS) : \E n \in IdentCounts(LEVELS[k]) :
    /\ pc = "rename"
    /\ level = LEVELS[k]
    /\ source = detokenize(IdentTokens(n))
    /\ tokens = IdentTokens(n)
    /\ mapping = <<>>
    /\ code = <<>>
    /\ pieces = <<>>
    /\ matched = <<>>
    /\ choice = <<>>

NextRename == RenameIdentifiers

SpecRename == InitRename /\ [][NextRename]_vars

-----------------------------------------------------------------------------
(* The pipeline at tier 3 on sources made of directive lines, code and a   *)
(* string literal that holds the directive marker.                          *)

DirectiveFragments ==
  << <<"#", "i", "n", "c", "l", "u", "d", "e", "<", "a", ">">>,
     <<"\n">>,
     <<" ">>,
     <<"\"", "#", "\"">>,
     <<"n">>,
     <<"0">> >>

DirectiveSourcesOf(n) ==
  {Join([i \in 1..n |-> DirectiveFragments[f[i]]]) :
     f \in [1..n -> 1..Len(DirectiveFragments)]}

InitDirectives ==
  \E n \in 0..MaxDirFrags : \E src \in DirectiveSourcesOf(n) : Start(src, "extreme")

SpecDirectives == InitDirectives /\ [][Next]_vars

-----------------------------------------------------------------------------
(* obfuscate_numbers on one assignment "n=<digits>;" at tier 3.            *)

NumberDigits == {"0", "1", "2", "5"}

NumberTexts ==
  UNION {{<<"n", "=">> \o ds \o <<";">> : ds \in [1..k -> NumberDigits]} : k \in 1..MaxDigits}

InitNumbers ==
  \E txt \in NumberTexts :
    /\ pc = "numbers"
    /\ level = "extreme"
    /\ source = txt
    /\ tokens = <<>>
    /\ mapping = <<>>
    /\ code = txt
    /\ pieces = <<>>
    /\ matched = <<>>
    /\ choice = <<>>

NextNumbers ==
  \/ ObfuscateNumbers
  \/ ReplaceNumber
  \/ ReturnCode

SpecNumbers == InitNumbers /\ [][NextNumbers]_vars

-----------------------------------------------------------------------------
(* Properties *)

\* The tokens of a stream that are not whitespace.
IsNotWs(t) == t.kind # "ws"

NonWs(toks) == SelectSeq(toks, IsNotWs)

\* finditer passes over a character of s: at some position of the scan no
\* alternative of TOKEN_REGEX matches.
RECURSIVE SkipsFrom(_, _)
SkipsFrom(s, p) ==
  IF p > Len(s) THEN FALSE
  ELSE IF MatchAt(s, p).end = 0 THEN TRUE
  ELSE SkipsFrom(s, MatchAt(s, p).end)

Unscannable(s) == SkipsFrom(s, 1)

\* The places (line, column) of the '#' characters on the non-empty lines of
\* text that do not start with '#'.
StrayHashes(text) ==
  LET lines == Split(text, "\n")
  IN  {pos \in UNION {{<<l, i>> : i \in 1..Len(lines[l])} : l \in 1..Len(lines)} :
         /\ lines[pos[1]][1] # "#"
         /\ lines[pos[1]][pos[2]] = "#"}

\* The places (token, column) of the '#' characters inside the string and
\* character literal tokens of a stream.
LiteralHashes(toks) ==
  {pos \in UNION {{<<t, i>> : i \in 1..Len(toks[t].value)} : t \in 1..Len(toks)} :
     /\ toks[pos[1]].kind \in {"string", "charlit"}
     /\ toks[pos[1]].value[pos[2]] = "#"}

\* The value in C of an integer constant: 0x.. is hexadecimal, a leading 0
\* makes it octal, anything else is decimal.
CDigitSeq ==
  <<"0", "1", "2", "3", "4", "5", "6", "7", "8", "9", "A", "B", "C", "D", "E", "F">>

CDigitValue(c) ==
  IF \E k \in 1..Len(DigitSeq) : DigitSeq[k] = c THEN DigitValue(c)
  ELSE (CHOOSE k \in 1..Len(CDigitSeq) : CDigitSeq[k] = c) - 1

RECURSIVE CRead(_, _)
CRead(ds, base) ==
  IF ds = <<>> THEN 0
  ELSE CRead(SubSeq(ds, 1, Len(ds) - 1), base) * base + CDigitValue(ds[Len(ds)])

CConstant(t) ==
  IF Len(t) > 2 /\ t[1] = "0" /\ t[2] \in {"x", "X"} THEN CRead(SubSeq(t, 3, Len(t)), 16)
  ELSE IF Len(t) > 1 /\ t[1] = "0" THEN CRead(Tail(t), 8)
  ELSE CRead(t, 10)

\* A run of decimal digits that is an integer constant of C.
IsCConstant(t) ==
  Len(t) = 1 \/ t[1] # "0" \/ \A i \in 1..Len(t) : t[i] \in OctDigit

RECURSIVE Pow2(_)
Pow2(k) == IF k = 0 THEN 1 ELSE 2 * Pow2(k - 1)

\* The value in C of a replacement: a constant, or (x&y), (x+y), (x<<y) of
\* two constants.
CValue(t) ==
  IF t[1] # "(" THEN CConstant(t)
  ELSE LET inner == SubSeq(t, 2, Len(t) - 1)
           o     == Min({i \in 1..Len(inner) : inner[i] \in {"&", "+", "<"}})
           left  == CConstant(SubSeq(inner, 1, o - 1))
       IN  IF inner[o] = "&" THEN BitAnd(left, CConstant(SubSeq(inner, o + 1, Len(inner))))
           ELSE IF inner[o] = "+" THEN left + CConstant(SubSeq(inner, o + 1, Len(inner)))
           ELSE left * Pow2(CConstant(SubSeq(inner, o + 2, Len(inner))))

\* C1 (round trip of the tokenizer): right after tokenize, the lexemes of the
\* tokens concatenate to exactly the source text.
C1_RoundTrip == pc = "strip" => detokenize(tokens) = source

\* C2 (reserved-set invariant): no key of the mapping rename_identifiers
\* builds is a member of RESERVED, and no generated name in it is one.
C2_ReservedSet ==
  \A i \in 1..Len(mapping) :
    mapping[i].orig \notin RESERVED /\ mapping[i].name \notin RESERVED

\* C2 happens: tier 3 renamed more identifiers than CONFUSING holds, so one
\* name was built by appending a suffix, in a stream with reserved words.
C2_Witness ==
  /\ pc = "compress"
  /\ level = "extreme"
  /\ Len(mapping) > Len(CONFUSING)
  /\ \E i \in 1..Len(mapping) : mapping[i].name \in ExtensionNames
  /\ \E i \in 1..Len(tokens) : tokens[i].kind = "ident" /\ tokens[i].value \in RESERVED

\* C3 (uniqueness of consumed pool names): two different original
\* identifiers are never mapped to the same generated name.
C3_NamesDistinct ==
  \A i, j \in 1..Len(mapping) : i # j => mapping[i].name # mapping[j].name

\* C4 (string-literal safety): at tiers 2 and 3 every string-literal token
\* appears in the final output with its text unchanged.
C4_StringsUnchanged ==
  (pc = "done" /\ level \in {"moderate", "extreme"}) =>
    \A i \in 1..Len(tokens) :
      tokens[i].kind = "string" => Contains(code, tokens[i].value)

\* C5 as stated (directive line isolation at tier 3): every non-empty line of
\* the final output starts with '#' or contains no '#' at all.
C5_NoStrayHash == (pc = "done" /\ level = "extreme") => StrayHashes(code) = {}

\* C5 as amended: the non-empty lines of the final output at tier 3 that do
\* not start with '#' hold no more '#' characters than the string and
\* character literals of the source do (none when those hold none).
C5_StrayHashFromLiterals ==
  (pc = "done" /\ level = "extreme") =>
    Cardinality(StrayHashes(code)) <= Cardinality(LiteralHashes(tokenize(source)))

\* C5 happens: the output has an include line of the source and a line of
\* code that carries the '#' of a string literal.
C5_Witness ==
  /\ pc = "done"
  /\ level = "extreme"
  /\ \E i \in 1..Len(tokens) : tokens[i].kind = "preproc"
  /\ \E l \in 1..Len(Split(code, "\n")) : IsIncludeLine(Split(code, "\n")[l])
  /\ Cardinality(StrayHashes(code)) = 1

\* C6 (unscannable input fails the run): when the source holds a character
\* that no tokenizer alternative matches, the run ends in an error and no
\* token sequence is passed on.
C6_UnscannableFails == (Unscannable(source) /\ pc # "tokenize") => pc = "failed"

\* C7 (pool exhaustion never fails): rename_identifiers completes normally
\* whatever the number of distinct renameable identifiers.
C7_ExhaustionNeverFails == pc # "failed"

\* C8 (macro block placement): after inject_macros at tiers 2 and 3 the seven
\* macro lines stand exactly once, in order, right after the last line that
\* begins with #include, or first when there is no such line.
C8_BlockAfterLastInclude ==
  (pc = "numbers" /\ level # "mild") =>
    LET lines == Split(code, "\n")
        incs  == {i \in 1..Len(lines) :
                    StartsWith(lines[i], <<"#", "i", "n", "c", "l", "u", "d", "e">>)}
        last  == IF incs = {} THEN 0 ELSE CHOOSE i \in incs : \A j \in incs : j <= i
    IN  /\ Len(lines) >= last + Len(macros)
        /\ SubSeq(lines, last + 1, last + Len(macros)) = macros
        /\ Cardinality({i \in 1..Len(lines) : lines[i] = macros[1]}) = 1

\* C9 (numeric replacements preserve the value): whatever replace returns
\* denotes in C the same integer as the literal it was called on.
C9_ValuePreserved ==
  (matched # <<>> /\ IsCConstant(matched)) => CValue(choice) = CConstant(matched)

\* C10 (token boundaries survive tier-3 whitespace removal): tokenizing the
\* text of the compressed stream gives the non-whitespace tokens the stream
\* had after strip_comments (no identifier is renamed when mapping is empty).
C10_BoundariesSurvive ==
  (pc = "detokenize" /\ level = "extreme" /\ mapping = <<>>) =>
    NonWs(tokenize(detokenize(tokens))) = NonWs(strip_comments(tokenize(source)))

=============================================================================
